---- MODULE Spec2Model ----
(***************************************************************************)
(* The four example scripts of aiida-cp2k:                                 *)
(*   examples/single_calculations/example_structure_through_file.py        *)
(*   examples/single_calculations/example_restart.py                       *)
(*   examples/workchains/example_base.py                                   *)
(*   examples/workchains/example_multistage_h2o_testfile.py                *)
(* Each is a click command cli(codelabel) that looks a code up and calls   *)
(* the script's example function, which fills a process builder and calls  *)
(* the engine's run().  The engine (run), the code database                *)
(* (Code.get_from_string) and the retrieved-files repository               *)
(* (get_object_content) are the environment: their results are chosen      *)
(* nondeterministically.                                                   *)
(***************************************************************************)
EXTENDS Integers, Sequences, FiniteSets, TLC

VARIABLES script, codelabel, codes, pc, code, exampleCalls, builder, runs,
          returned, calc1, calc2, output, stdout, errline, exitStatus

vars == <<script, codelabel, codes, pc, code, exampleCalls, builder, runs,
          returned, calc1, calc2, output, stdout, errline, exitStatus>>

----------------------------------------------------------------------------
(* Bounds of the environment *)

\* nwarnings reported by a calculation ranges over 0..MaxWarnings
MaxWarnings == 2
\* the retrieved aiida.out has at most MaxOutLen tokens
MaxOutLen == 3

----------------------------------------------------------------------------
(* The scripts and the code database *)

STF == "example_structure_through_file"
RESTART == "example_restart"
BASE == "example_base"
MULTISTAGE == "example_multistage_h2o_testfile"

Scripts == {STF, RESTART, BASE, MULTISTAGE}

\* labels a user may pass on the command line
CodeLabels == {"cp2k@localhost", "cp2k6@remote"}

\* the value of `code` before the lookup has bound it
NoCode == "<unbound>"

----------------------------------------------------------------------------
(* Dict: a nested dictionary is the function from the path of each leaf    *)
(* to the leaf's value (values are kept as written in the source).         *)

\* the part every script's parameters share: FORCE_EVAL without SUBSYS
ForceEvalDFT ==
    (<<"FORCE_EVAL", "METHOD">> :> "Quickstep")
 @@ (<<"FORCE_EVAL", "DFT", "BASIS_SET_FILE_NAME">> :> "BASIS_MOLOPT")
 @@ (<<"FORCE_EVAL", "DFT", "POTENTIAL_FILE_NAME">> :> "GTH_POTENTIALS")
 @@ (<<"FORCE_EVAL", "DFT", "QS", "EPS_DEFAULT">> :> "1.0e-12")
 @@ (<<"FORCE_EVAL", "DFT", "QS", "WF_INTERPOLATION">> :> "ps")
 @@ (<<"FORCE_EVAL", "DFT", "QS", "EXTRAPOLATION_ORDER">> :> "3")
 @@ (<<"FORCE_EVAL", "DFT", "MGRID", "NGRIDS">> :> "4")
 @@ (<<"FORCE_EVAL", "DFT", "MGRID", "CUTOFF">> :> "280")
 @@ (<<"FORCE_EVAL", "DFT", "MGRID", "REL_CUTOFF">> :> "30")
 @@ (<<"FORCE_EVAL", "DFT", "XC", "XC_FUNCTIONAL", "_">> :> "LDA")
 @@ (<<"FORCE_EVAL", "DFT", "POISSON", "PERIODIC">> :> "none")
 @@ (<<"FORCE_EVAL", "DFT", "POISSON", "PSOLVER">> :> "MT")

\* the KIND list of SUBSYS: list indices are path components
SubsysKind ==
    (<<"FORCE_EVAL", "SUBSYS", "KIND", "0", "_">> :> "O")
 @@ (<<"FORCE_EVAL", "SUBSYS", "KIND", "0", "BASIS_SET">> :> "DZVP-MOLOPT-SR-GTH")
 @@ (<<"FORCE_EVAL", "SUBSYS", "KIND", "0", "POTENTIAL">> :> "GTH-LDA-q6")
 @@ (<<"FORCE_EVAL", "SUBSYS", "KIND", "1", "_">> :> "H")
 @@ (<<"FORCE_EVAL", "SUBSYS", "KIND", "1", "BASIS_SET">> :> "DZVP-MOLOPT-SR-GTH")
 @@ (<<"FORCE_EVAL", "SUBSYS", "KIND", "1", "POTENTIAL">> :> "GTH-LDA-q1")

\* example_base.py: parameters
parameters_base == ForceEvalDFT @@ SubsysKind

\* example_structure_through_file.py: parameters
parameters_stf ==
    ForceEvalDFT @@ SubsysKind
 @@ (<<"FORCE_EVAL", "SUBSYS", "TOPOLOGY", "COORD_FILE_NAME">> :> "water.xyz")
 @@ (<<"FORCE_EVAL", "SUBSYS", "TOPOLOGY", "COORD_FILE_FORMAT">> :> "XYZ")
 @@ (<<"FORCE_EVAL", "SUBSYS", "CELL", "ABC">> :> "format(atoms.cell.diagonal())")

\* example_restart.py: params1
params1 ==
    ForceEvalDFT @@ SubsysKind
 @@ (<<"GLOBAL", "RUN_TYPE">> :> "GEO_OPT")
 @@ (<<"GLOBAL", "WALLTIME">> :> "00:00:10")
 @@ (<<"MOTION", "GEO_OPT", "MAX_FORCE">> :> "1e-20")
 @@ (<<"MOTION", "GEO_OPT", "MAX_ITER">> :> "100000")
 @@ (<<"FORCE_EVAL", "DFT", "SCF", "PRINT", "RESTART", "_">> :> "ON")

\* del d[k1][k2]...: every leaf at or below the path goes
DictDel(d, path) ==
    LET keep == {p \in DOMAIN d :
                   ~(Len(p) >= Len(path) /\ SubSeq(p, 1, Len(path)) = path)}
    IN  [p \in keep |-> d[p]]

\* d[k1][k2]... = v for a leaf value v
DictSet(d, path, v) ==
    LET below == DictDel(d, path)
    IN  [p \in DOMAIN below \cup {path} |-> IF p = path THEN v ELSE below[p]]

\* example_restart.py: params2, derived from a deep copy of params1
params2 ==
    LET c0 == params1
        c1 == DictDel(c0, <<"GLOBAL", "WALLTIME">>)
        c2 == DictDel(c1, <<"MOTION", "GEO_OPT", "MAX_FORCE">>)
        c3 == DictSet(c2, <<"FORCE_EVAL", "DFT", "RESTART_FILE_NAME">>,
                      "./parent_calc/aiida-RESTART.wfn")
        c4 == DictSet(c3, <<"FORCE_EVAL", "DFT", "SCF", "SCF_GUESS">>, "RESTART")
        c5 == DictSet(c4, <<"EXT_RESTART", "RESTART_FILE_NAME">>,
                      "./parent_calc/aiida-1.restart")
    IN  c5

----------------------------------------------------------------------------
(* The process builder: the function from each port that has been set to   *)
(* its value.  Nested namespaces are dotted port names.                    *)

EmptyBuilder == [p \in {} |-> 0]

SetPort(b, port, v) ==
    [p \in DOMAIN b \cup {port} |-> IF p = port THEN v ELSE b[p]]

resources == [num_machines |-> 1, num_mpiprocs_per_machine |-> 1]

basis_file == "files/BASIS_MOLOPT"
pseudo_file == "files/GTH_POTENTIALS"

----------------------------------------------------------------------------
(* What run() returns *)

\* energies are fixed-point numbers in units of 1e-11 Hartree, kept as two
\* limbs <<hi, lo>> of value hi * 10^6 + lo; <<>> is Python's None
None == <<>>

\* -17.1566455959
expected_energy == <<-1715664, -559590>>
\* 1e-10
tolerance == 10

Energies ==
    { expected_energy,
      <<-1715664, -559599>>,     \* -17.15664559599: off by 0.9e-10
      <<-1715664, -559600>>,     \* -17.15664559600: off by exactly 1e-10
      <<-1715665, -559590>> }    \* -17.1566555959 : off by 1e-5

Minus(a, b) == (a[1] - b[1]) * 1000000 + (a[2] - b[2])
Abs(x) == IF x < 0 THEN -x ELSE x

OutputParameters ==
    [exceeded_walltime : BOOLEAN,
     energy : Energies \cup {None},
     nwarnings : 0..MaxWarnings]

\* a result is the dict of output nodes: its keys and the nodes read
Results ==
    [keys : { {"output_parameters", "remote_folder", "retrieved"},
              {"output_parameters", "remote_folder", "retrieved", "output_structure"} },
     output_parameters : OutputParameters,
     remote_folder : {0}]

NotRun ==
    [keys |-> {},
     output_parameters |-> [exceeded_walltime |-> FALSE, energy |-> None, nwarnings |-> 0],
     remote_folder |-> 0]

----------------------------------------------------------------------------
(* The retrieved aiida.out: a sequence of tokens *)

WARN == "WARNING "
OVERWRITE == " :: Overwriting coordinates"
NL == "\n"
TEXT == "x"
Tokens == {WARN, OVERWRITE, NL, TEXT}

Unread == <<"<unread>">>

SeqsUpTo(S, n) == UNION {[1..k -> S] : k \in 0..n}

OutputFiles == SeqsUpTo(Tokens, MaxOutLen)

\* re.search("WARNING .* :: Overwriting coordinates", output): '.' matches
\* anything but a newline
Search(out) ==
    \E i \in 1..Len(out) : \E j \in (i + 1)..Len(out) :
        /\ out[i] = WARN
        /\ out[j] = OVERWRITE
        /\ \A k \in (i + 1)..(j - 1) : out[k] # NL

----------------------------------------------------------------------------
Init ==
    /\ script \in Scripts
    /\ codelabel \in CodeLabels
    /\ codes \in SUBSET CodeLabels
    /\ pc = "cli"
    /\ code = NoCode
    /\ exampleCalls = <<>>
    /\ builder = EmptyBuilder
    /\ runs = <<>>
    /\ returned = <<>>
    /\ calc1 = NotRun
    /\ calc2 = NotRun
    /\ output = Unread
    /\ stdout = <<>>
    /\ errline = 0
    /\ exitStatus = -1

\* cli(codelabel): the four scripts' cli differ only in the function called
\* cli without the sys.exit(1): after the message the example function is
\* called although no code was found
cli_no_exit ==
    /\ pc = "cli"
    /\ IF codelabel \in codes
       THEN /\ code' = codelabel
            /\ exampleCalls' = Append(exampleCalls, <<script, codelabel>>)
            /\ UNCHANGED <<stdout, exitStatus>>
       ELSE /\ stdout' = Append(stdout, <<"The code '{}' does not exist", codelabel>>)
            /\ exampleCalls' = Append(exampleCalls, <<script, NoCode>>)
            /\ UNCHANGED <<code, exitStatus>>
    /\ pc' = "example"
    /\ UNCHANGED <<script, codelabel, codes, builder, runs, returned, calc1, calc2,
                   output, errline>>

cli ==
    /\ pc = "cli"
    /\ IF codelabel \in codes
       THEN /\ code' = codelabel
            /\ exampleCalls' = Append(exampleCalls, <<script, codelabel>>)
            /\ pc' = "example"
            /\ UNCHANGED <<stdout, exitStatus>>
       ELSE /\ stdout' = Append(stdout, <<"The code '{}' does not exist", codelabel>>)
            /\ exitStatus' = 1
            /\ pc' = "exit"
            /\ UNCHANGED <<code, exampleCalls>>
    /\ UNCHANGED <<script, codelabel, codes, builder, runs, returned, calc1, calc2,
                   output, errline>>

----------------------------------------------------------------------------
(* example_structure_through_file.py *)

\* example_structure_through_file(cp2k_code) up to the call of run
example_structure_through_file ==
    /\ pc = "example"
    /\ script = STF
    /\ stdout' = stdout \o << <<"Testing CP2K ENERGY on H2O (DFT). Water molecule is provided through a file input...">>,
                              <<"Submitted calculation...">> >>
    /\ builder' =
         LET b0 == EmptyBuilder
             b1 == SetPort(b0, "parameters", parameters_stf)
             b2 == SetPort(b1, "code", code)
             b3 == SetPort(b2, "file", [basis |-> basis_file, pseudo |-> pseudo_file,
                                        water |-> "StructureData(H2O, vacuum=2.0)"])
             b4 == SetPort(b3, "metadata.options.resources", resources)
             b5 == SetPort(b4, "metadata.options.max_wallclock_seconds", 1 * 3 * 60)
         IN  b5
    /\ pc' = "run1"
    /\ UNCHANGED <<script, codelabel, codes, code, exampleCalls, runs, returned,
                   calc1, calc2, output, errline, exitStatus>>

\* run(builder) as the last statement: the result is dropped, an exception
\* propagates out of cli
run_structure_through_file ==
    /\ pc = "run1"
    /\ script = STF
    /\ runs' = Append(runs, builder)
    /\ \/ \E r \in Results :
            /\ returned' = Append(returned, [r EXCEPT !.remote_folder = Len(runs) + 1])
            /\ pc' = "done"
            /\ exitStatus' = 0
            /\ UNCHANGED errline
       \/ /\ pc' = "RunError"
          /\ errline' = 113
          /\ exitStatus' = 1
          /\ UNCHANGED returned
    /\ UNCHANGED <<script, codelabel, codes, code, exampleCalls, builder,
                   calc1, calc2, output, stdout>>

----------------------------------------------------------------------------
(* example_base.py *)

\* example_base(cp2k_code) up to the call of run
\* example_base that forgets builder.cp2k.file
example_base_no_file ==
    /\ pc = "example"
    /\ script = BASE
    /\ stdout' = stdout \o << <<"Testing CP2K ENERGY on H2O (DFT) through a workchain...">>,
                              <<"Submitted calculation...">> >>
    /\ builder' =
         LET b0 == EmptyBuilder
             b1 == SetPort(b0, "cp2k.structure", "StructureData(H2O, vacuum=2.0)")
             b2 == SetPort(b1, "cp2k.parameters", parameters_base)
             b3 == SetPort(b2, "cp2k.code", code)
             b5 == SetPort(b3, "cp2k.metadata.options.resources", resources)
             b6 == SetPort(b5, "cp2k.metadata.options.max_wallclock_seconds", 1 * 3 * 60)
         IN  b6
    /\ pc' = "run1"
    /\ UNCHANGED <<script, codelabel, codes, code, exampleCalls, runs, returned,
                   calc1, calc2, output, errline, exitStatus>>

example_base ==
    /\ pc = "example"
    /\ script = BASE
    /\ stdout' = stdout \o << <<"Testing CP2K ENERGY on H2O (DFT) through a workchain...">>,
                              <<"Submitted calculation...">> >>
    /\ builder' =
         LET b0 == EmptyBuilder
             b1 == SetPort(b0, "cp2k.structure", "StructureData(H2O, vacuum=2.0)")
             b2 == SetPort(b1, "cp2k.parameters", parameters_base)
             b3 == SetPort(b2, "cp2k.code", code)
             b4 == SetPort(b3, "cp2k.file", [basis |-> basis_file, pseudo |-> pseudo_file])
             b5 == SetPort(b4, "cp2k.metadata.options.resources", resources)
             b6 == SetPort(b5, "cp2k.metadata.options.max_wallclock_seconds", 1 * 3 * 60)
         IN  b6
    /\ pc' = "run1"
    /\ UNCHANGED <<script, codelabel, codes, code, exampleCalls, runs, returned,
                   calc1, calc2, output, errline, exitStatus>>

run_base ==
    /\ pc = "run1"
    /\ script = BASE
    /\ runs' = Append(runs, builder)
    /\ \/ \E r \in Results :
            /\ returned' = Append(returned, [r EXCEPT !.remote_folder = Len(runs) + 1])
            /\ pc' = "done"
            /\ exitStatus' = 0
            /\ UNCHANGED errline
       \/ /\ pc' = "RunError"
          /\ errline' = 106
          /\ exitStatus' = 1
          /\ UNCHANGED returned
    /\ UNCHANGED <<script, codelabel, codes, code, exampleCalls, builder,
                   calc1, calc2, output, stdout>>

----------------------------------------------------------------------------
(* example_multistage_h2o_testfile.py *)

\* example_multistage_h2o_testfile(cp2k_code) up to the call of run
example_multistage_h2o_testfile ==
    /\ pc = "example"
    /\ script = MULTISTAGE
    /\ stdout' = stdout \o << <<"Testing CP2K multistage workchain on H2O">>,
                              <<">>> Loading a custom protocol from file testfile.yaml">> >>
    /\ builder' =
         LET b0 == EmptyBuilder
             b1 == SetPort(b0, "structure", "StructureData(data/h2o.xyz)")
             b2 == SetPort(b1, "protocol_yaml", "data/testfile.yaml")
             b3 == SetPort(b2, "cp2k_base.cp2k.code", code)
             b4 == SetPort(b3, "cp2k_base.cp2k.metadata.options.resources", resources)
             b5 == SetPort(b4, "cp2k_base.cp2k.metadata.options.max_wallclock_seconds",
                           1 * 3 * 60)
         IN  b5
    /\ pc' = "run1"
    /\ UNCHANGED <<script, codelabel, codes, code, exampleCalls, runs, returned,
                   calc1, calc2, output, errline, exitStatus>>

run_multistage_h2o_testfile ==
    /\ pc = "run1"
    /\ script = MULTISTAGE
    /\ runs' = Append(runs, builder)
    /\ \/ \E r \in Results :
            /\ returned' = Append(returned, [r EXCEPT !.remote_folder = Len(runs) + 1])
            /\ pc' = "done"
            /\ exitStatus' = 0
            /\ UNCHANGED errline
       \/ /\ pc' = "RunError"
          /\ errline' = 42
          /\ exitStatus' = 1
          /\ UNCHANGED returned
    /\ UNCHANGED <<script, codelabel, codes, code, exampleCalls, builder,
                   calc1, calc2, output, stdout>>

----------------------------------------------------------------------------
(* example_restart.py *)

\* example_restart(cp2k_code) up to the first call of run
example_restart ==
    /\ pc = "example"
    /\ script = RESTART
    /\ stdout' = stdout \o << <<"Testing CP2K restart...">>,
                              <<"submitted calculation 1:">> >>
    /\ builder' =
         LET b0 == EmptyBuilder
             b1 == SetPort(b0, "structure", "StructureData(H2O, vacuum=2.0)")
             b2 == SetPort(b1, "parameters", params1)
             b3 == SetPort(b2, "code", code)
             b4 == SetPort(b3, "file", [basis |-> basis_file, pseudo |-> pseudo_file])
             b5 == SetPort(b4, "metadata.options.resources", resources)
             b6 == SetPort(b5, "metadata.options.max_wallclock_seconds", 1 * 2 * 60)
         IN  b6
    /\ pc' = "run1"
    /\ UNCHANGED <<script, codelabel, codes, code, exampleCalls, runs, returned,
                   calc1, calc2, output, errline, exitStatus>>

\* calc1 = run(builder)
\* run_calc1 that resubmits the builder when run raises
run_calc1_retry ==
    /\ pc = "run1"
    /\ script = RESTART
    /\ Len(runs) < 3
    /\ runs' = Append(runs, builder)
    /\ \/ \E r \in Results :
            LET res == [r EXCEPT !.remote_folder = Len(runs) + 1]
            IN  /\ returned' = Append(returned, res)
                /\ calc1' = res
                /\ pc' = "check1"
                /\ UNCHANGED <<errline, exitStatus>>
       \/ /\ pc' = "run1"
          /\ UNCHANGED <<returned, calc1, errline, exitStatus>>
    /\ UNCHANGED <<script, codelabel, codes, code, exampleCalls, builder,
                   calc2, output, stdout>>

run_calc1 ==
    /\ pc = "run1"
    /\ script = RESTART
    /\ runs' = Append(runs, builder)
    /\ \/ \E r \in Results :
            LET res == [r EXCEPT !.remote_folder = Len(runs) + 1]
            IN  /\ returned' = Append(returned, res)
                /\ calc1' = res
                /\ pc' = "check1"
                /\ UNCHANGED <<errline, exitStatus>>
       \/ /\ pc' = "RunError"
          /\ errline' = 128
          /\ exitStatus' = 1
          /\ UNCHANGED <<returned, calc1>>
    /\ UNCHANGED <<script, codelabel, codes, code, exampleCalls, builder,
                   calc2, output, stdout>>

\* the three assertions on calc1, in order, then the OK message
\* check_calc1 without the assertion on output_structure
check_calc1_no_structure ==
    /\ pc = "check1"
    /\ LET failed ==
             IF ~(calc1.output_parameters.exceeded_walltime = TRUE) THEN 131
             ELSE IF ~(calc1.output_parameters.energy # None) THEN 132
             ELSE 0
       IN  IF failed = 0
           THEN /\ stdout' = Append(stdout, <<"OK, walltime exceeded as expected">>)
                /\ pc' = "setup2"
                /\ UNCHANGED <<errline, exitStatus>>
           ELSE /\ pc' = "AssertionError"
                /\ errline' = failed
                /\ exitStatus' = 1
                /\ UNCHANGED stdout
    /\ UNCHANGED <<script, codelabel, codes, code, exampleCalls, builder, runs,
                   returned, calc1, calc2, output>>

check_calc1 ==
    /\ pc = "check1"
    /\ LET failed ==
             IF ~(calc1.output_parameters.exceeded_walltime = TRUE) THEN 131
             ELSE IF ~(calc1.output_parameters.energy # None) THEN 132
             ELSE IF ~("output_structure" \in calc1.keys) THEN 133
             ELSE 0
       IN  IF failed = 0
           THEN /\ stdout' = Append(stdout, <<"OK, walltime exceeded as expected">>)
                /\ pc' = "setup2"
                /\ UNCHANGED <<errline, exitStatus>>
           ELSE /\ pc' = "AssertionError"
                /\ errline' = failed
                /\ exitStatus' = 1
                /\ UNCHANGED stdout
    /\ UNCHANGED <<script, codelabel, codes, code, exampleCalls, builder, runs,
                   returned, calc1, calc2, output>>

\* params2, structure2 and the update of the builder for calculation 2
setup_calc2 ==
    /\ pc = "setup2"
    /\ builder' =
         LET b1 == SetPort(builder, "structure", "StructureData(H2O, vacuum=2.0, positions*0)")
             b2 == SetPort(b1, "parameters", params2)
             b3 == SetPort(b2, "parent_calc_folder", calc1.remote_folder)
         IN  b3
    /\ stdout' = Append(stdout, <<"submitted calculation 2">>)
    /\ pc' = "run2"
    /\ UNCHANGED <<script, codelabel, codes, code, exampleCalls, runs, returned,
                   calc1, calc2, output, errline, exitStatus>>

\* calc2 = run(builder)
run_calc2 ==
    /\ pc = "run2"
    /\ runs' = Append(runs, builder)
    /\ \/ \E r \in Results :
            LET res == [r EXCEPT !.remote_folder = Len(runs) + 1]
            IN  /\ returned' = Append(returned, res)
                /\ calc2' = res
                /\ pc' = "check_energy"
                /\ UNCHANGED <<errline, exitStatus>>
       \/ /\ pc' = "RunError"
          /\ errline' = 161
          /\ exitStatus' = 1
          /\ UNCHANGED <<returned, calc2>>
    /\ UNCHANGED <<script, codelabel, codes, code, exampleCalls, builder,
                   calc1, output, stdout>>

\* "# check energy": an if that prints, with no else; None - float raises TypeError
check_energy ==
    /\ pc = "check_energy"
    /\ IF calc2.output_parameters.energy = None
       THEN /\ pc' = "TypeError"
            /\ errline' = 165
            /\ exitStatus' = 1
            /\ UNCHANGED stdout
       ELSE /\ stdout' =
                 IF Abs(Minus(calc2.output_parameters.energy, expected_energy)) < tolerance
                 THEN Append(stdout, <<"OK, energy has the expected value">>)
                 ELSE stdout
            /\ pc' = "check_nwarnings"
            /\ UNCHANGED <<errline, exitStatus>>
    /\ UNCHANGED <<script, codelabel, codes, code, exampleCalls, builder, runs,
                   returned, calc1, calc2, output>>

\* assert calc2['output_parameters'].dict.nwarnings == 1
\* check_nwarnings asserting nwarnings >= 1 instead of == 1
check_nwarnings_at_least_one ==
    /\ pc = "check_nwarnings"
    /\ IF calc2.output_parameters.nwarnings >= 1
       THEN /\ pc' = "read_output"
            /\ UNCHANGED <<errline, exitStatus>>
       ELSE /\ pc' = "AssertionError"
            /\ errline' = 169
            /\ exitStatus' = 1
    /\ UNCHANGED <<script, codelabel, codes, code, exampleCalls, builder, runs,
                   returned, calc1, calc2, output, stdout>>

check_nwarnings ==
    /\ pc = "check_nwarnings"
    /\ IF calc2.output_parameters.nwarnings = 1
       THEN /\ pc' = "read_output"
            /\ UNCHANGED <<errline, exitStatus>>
       ELSE /\ pc' = "AssertionError"
            /\ errline' = 169
            /\ exitStatus' = 1
    /\ UNCHANGED <<script, codelabel, codes, code, exampleCalls, builder, runs,
                   returned, calc1, calc2, output, stdout>>

\* output = calc2['retrieved']._repository.get_object_content('aiida.out'):
\* the repository returns the file's content or raises when it has no such file
get_object_content ==
    /\ pc = "read_output"
    /\ \/ \E content \in OutputFiles :
            /\ output' = content
            /\ pc' = "check_output"
            /\ UNCHANGED <<errline, exitStatus>>
       \/ /\ pc' = "IOError"
          /\ errline' = 172
          /\ exitStatus' = 1
          /\ UNCHANGED output
    /\ UNCHANGED <<script, codelabel, codes, code, exampleCalls, builder, runs,
                   returned, calc1, calc2, stdout>>

\* assert re.search("WARNING .* :: Overwriting coordinates", output)
\* check_output with the assert dropped: the search result is ignored
check_output_no_assert ==
    /\ pc = "check_output"
    /\ pc' = "done"
    /\ exitStatus' = 0
    /\ UNCHANGED <<script, codelabel, codes, code, exampleCalls, builder, runs,
                   returned, calc1, calc2, output, stdout, errline>>

check_output ==
    /\ pc = "check_output"
    /\ IF Search(output)
       THEN /\ pc' = "done"
            /\ exitStatus' = 0
            /\ UNCHANGED errline
       ELSE /\ pc' = "AssertionError"
            /\ errline' = 173
            /\ exitStatus' = 1
    /\ UNCHANGED <<script, codelabel, codes, code, exampleCalls, builder, runs,
                   returned, calc1, calc2, output, stdout>>

----------------------------------------------------------------------------
Next ==
    \/ cli
    \/ example_structure_through_file
    \/ run_structure_through_file
    \/ example_base
    \/ run_base
    \/ example_multistage_h2o_testfile
    \/ run_multistage_h2o_testfile
    \/ example_restart
    \/ run_calc1
    \/ check_calc1
    \/ setup_calc2
    \/ run_calc2
    \/ check_energy
    \/ check_nwarnings
    \/ get_object_content
    \/ check_output

Spec == Init /\ [][Next]_vars

----------------------------------------------------------------------------
(* Properties *)

\* C1: cli calls the example function only when the lookup succeeds.  When
\* Code.get_from_string raises NotExistent the script has printed the "does
\* not exist" message and exited with status 1, no builder was filled and run
\* was never called; when it succeeds the example function has been called
\* exactly once, with the code that was looked up.
C1_CliGuardsExample ==
    pc # "cli" =>
        IF codelabel \in codes
        THEN /\ exampleCalls = << <<script, codelabel>> >>
             /\ code = codelabel
             /\ \A i \in DOMAIN runs :
                    \E port \in {"code", "cp2k.code", "cp2k_base.cp2k.code"} \cap DOMAIN runs[i] :
                        runs[i][port] = codelabel
        ELSE /\ pc = "exit"
             /\ exitStatus = 1
             /\ stdout = << <<"The code '{}' does not exist", codelabel>> >>
             /\ exampleCalls = <<>>
             /\ builder = EmptyBuilder
             /\ runs = <<>>

C1_Witness ==
    /\ pc = "exit"
    /\ codelabel \notin codes
    /\ codes # {}
    /\ exitStatus = 1

\* C2 as stated: whenever run is called, in any of the four scripts, the
\* builder holds a nested parameters dictionary and basis-set and
\* pseudopotential files.
C2_EveryRunHasParametersAndFiles ==
    \A i \in DOMAIN runs :
        /\ \E port \in {"parameters", "cp2k.parameters"} \cap DOMAIN runs[i] :
               \E path \in DOMAIN runs[i][port] : Len(path) >= 2
        /\ \E port \in {"file", "cp2k.file"} \cap DOMAIN runs[i] :
               {"basis", "pseudo"} \subseteq DOMAIN runs[i][port]

\* C2 amended: in example_structure_through_file, example_base and
\* example_restart every call of run gets a builder with a nested parameters
\* dictionary and the basis-set and pseudopotential files; in
\* example_multistage_h2o_testfile run gets a builder with neither: only the
\* structure, the protocol YAML file, the code and the metadata options.
C2_ThreeScriptsHaveParametersAndFiles ==
    \A i \in DOMAIN runs :
        IF script = MULTISTAGE
        THEN DOMAIN runs[i] =
                 {"structure", "protocol_yaml", "cp2k_base.cp2k.code",
                  "cp2k_base.cp2k.metadata.options.resources",
                  "cp2k_base.cp2k.metadata.options.max_wallclock_seconds"}
        ELSE LET pport == IF script = BASE THEN "cp2k.parameters" ELSE "parameters"
                 fport == IF script = BASE THEN "cp2k.file" ELSE "file"
             IN  /\ pport \in DOMAIN runs[i]
                 /\ \E path \in DOMAIN runs[i][pport] : Len(path) >= 2
                 /\ fport \in DOMAIN runs[i]
                 /\ runs[i][fport].basis = basis_file
                 /\ runs[i][fport].pseudo = pseudo_file

C2_Witness ==
    /\ script = BASE
    /\ Len(runs) = 1
    /\ pc = "done"

\* C3 as stated: every script asserts on the output metadata after run
\* returns, so no script finishes successfully when a run returned no energy.
C3_UnexpectedOutputFailsEveryScript ==
    pc = "done" =>
        \A i \in DOMAIN returned : returned[i].output_parameters.energy # None

\* C3 amended: only example_restart makes assertions after run returns (on
\* calculation 1: exceeded_walltime, energy present, output_structure present;
\* on calculation 2: nwarnings == 1 and the text of aiida.out).  The other
\* three scripts drop the result of run and finish successfully whatever it
\* returned; an AssertionError comes from example_restart alone.
C3_OnlyRestartAsserts ==
    /\ (script # RESTART /\ returned # <<>>) => (pc = "done" /\ exitStatus = 0)
    /\ pc = "AssertionError" =>
           (script = RESTART /\ errline \in {131, 132, 133, 169, 173})
    /\ (script = RESTART /\ pc = "done") =>
           /\ Len(returned) = 2
           /\ returned[1].output_parameters.exceeded_walltime
           /\ returned[1].output_parameters.energy # None
           /\ "output_structure" \in returned[1].keys
           /\ returned[2].output_parameters.nwarnings = 1
           /\ \E i \in 1..Len(output) : output[i] = OVERWRITE

C3_Witness ==
    /\ script = STF
    /\ pc = "done"
    /\ returned[1].output_parameters.energy = None
    /\ returned[1].output_parameters.nwarnings = MaxWarnings

\* C4: the scripts never retry or resubmit.  The three single-run scripts call
\* run at most once, example_restart at most twice and in the order
\* calculation 1 (params1, no parent folder) then calculation 2 (params2,
\* parent folder of calculation 1); every call of run but a raising one has
\* returned, and a raising call is the last one.
C4_NoRetryNoResubmit ==
    /\ Len(runs) <= (IF script = RESTART THEN 2 ELSE 1)
    /\ (script = RESTART /\ Len(runs) >= 1) =>
           /\ runs[1]["parameters"] = params1
           /\ "parent_calc_folder" \notin DOMAIN runs[1]
    /\ (script = RESTART /\ Len(runs) = 2) =>
           /\ runs[2]["parameters"] = params2
           /\ runs[2]["parent_calc_folder"] = returned[1].remote_folder
    /\ IF pc = "RunError"
       THEN Len(runs) = Len(returned) + 1
       ELSE Len(runs) = Len(returned)

C4_Witness ==
    /\ script = RESTART
    /\ pc = "RunError"
    /\ Len(runs) = 2
    /\ errline = 161

\* C5: in example_restart the second run is called only after the first has
\* returned and its three checks passed (exceeded_walltime is True, energy is
\* not None, output_structure present); when one of them fails the script
\* stops with an AssertionError and run is not called a second time.
C5_SecondRunAfterChecks ==
    script = RESTART =>
        LET ok == /\ calc1.output_parameters.exceeded_walltime = TRUE
                  /\ calc1.output_parameters.energy # None
                  /\ "output_structure" \in calc1.keys
        IN  /\ (pc = "run2" \/ Len(runs) = 2) =>
                   (returned # <<>> /\ calc1 = returned[1] /\ ok)
            /\ (returned # <<>> /\ pc # "check1" /\ ~ok) =>
                   /\ pc = "AssertionError"
                   /\ errline \in {131, 132, 133}
                   /\ Len(runs) = 1
                   /\ calc2 = NotRun

C5_Witness ==
    /\ script = RESTART
    /\ Len(runs) = 2
    /\ calc2 # NotRun

\* C6: example_restart finishes successfully only when the energy of the
\* second calculation is within 1e-10 of -17.1566455959.
C6_EnergyWithinTolerance ==
    (script = RESTART /\ pc = "done") =>
        Abs(Minus(calc2.output_parameters.energy, expected_energy)) < tolerance

\* C7: example_restart finishes successfully only if the second calculation
\* reports exactly one warning and aiida.out has a line matching
\* "WARNING .* :: Overwriting coordinates"; aiida.out is read only after the
\* assertion on the warning count has passed, and any other warning count
\* fails the example before the output is read.
C7_OneWarningThenOutput ==
    script = RESTART =>
        /\ pc = "done" =>
               (calc2.output_parameters.nwarnings = 1 /\ Search(output))
        /\ (output # Unread \/ pc \in {"read_output", "check_output", "IOError"}) =>
               calc2.output_parameters.nwarnings = 1
        /\ (Len(returned) = 2 /\ calc2.output_parameters.nwarnings # 1) =>
               /\ output = Unread
               /\ pc \in {"check_energy", "check_nwarnings", "TypeError", "AssertionError"}
               /\ pc = "AssertionError" => errline = 169

C7_Witness ==
    /\ script = RESTART
    /\ pc = "done"
    /\ Len(output) = 3
    /\ output[2] = TEXT
====
